---- MODULE Spec2Model ----
(***************************************************************************)
(* DynamoDB -> Snowflake loader: lambda_function.py (the two Lambda        *)
(* handlers, load_truncate, load_upsert, infer_columns) and                *)
(* utils/flatten.py (flatten_json).                                        *)
(*                                                                         *)
(* Strings are sequences of one-character strings, so that concatenation,  *)
(* the emptiness test `if parent_key` and sorted() are computed as Python  *)
(* computes them.  A Python dict is a function from its key set; None is   *)
(* the value None.                                                         *)
(***************************************************************************)
EXTENDS Integers, Sequences, FiniteSets, TLC

\* ---------------------------------------------------------------- bounds
MaxSource == 2      \* records in the DynamoDB table
MaxBatchSize == 2   \* values of BATCH_SIZE that are explored: 1..MaxBatchSize
MaxRuns == 2        \* handler invocations in one behaviour
MaxDepth == 2       \* nesting depth of the records given to flatten_json
MaxWidth == 2       \* entries of one mapping / elements of one list

\* ------------------------------------------------------------- strings
None == "None"

EmptyStr == << >>

SEP == <<"_">>

Digits == <<"0", "1", "2", "3", "4", "5", "6", "7", "8", "9">>

\* the code point of a character (Python compares strings by code point)
Ord(c) ==
  CASE c \in {Digits[i] : i \in 1..10} -> 47 + (CHOOSE i \in 1..10 : Digits[i] = c)
    [] c = "_" -> 95
    [] c = "a" -> 97
    [] c = "b" -> 98
    [] c = "c" -> 99
    [] c = "d" -> 100
    [] c = "i" -> 105
    [] c = "u" -> 117

\* str(idx) for idx >= 0
RECURSIVE Str(_)
Str(n) == IF n < 10 THEN <<Digits[n + 1]>>
          ELSE Str(n \div 10) \o <<Digits[(n % 10) + 1]>>

\* s < t for Python strings
RECURSIVE StrLess(_, _)
StrLess(s, t) ==
  IF s = << >> THEN t # << >>
  ELSE IF t = << >> THEN FALSE
  ELSE IF Head(s) = Head(t) THEN StrLess(Tail(s), Tail(t))
  ELSE Ord(Head(s)) < Ord(Head(t))

Range(s) == {s[i] : i \in DOMAIN s}

\* ------------------------------------------------------- nested records
\* a mapping: its entries <<key, value>> in insertion order
Mapping(kv) == [t |-> "map", kv |-> kv]
\* a list
List(xs) == [t |-> "list", xs |-> xs]
\* anything else: a scalar (a string here) or None
Scalar(v) == [t |-> "scalar", v |-> v]

EmptyDict == [k \in {} |-> None]

\* dict.update(): the entries of `new` win
Update(items, new) == new @@ items

\* flatten_json(data, parent_key, sep="_")
RECURSIVE flatten_json(_, _)
RECURSIVE FlattenEntries(_, _, _)
RECURSIVE FlattenElements(_, _, _, _)

\* the loop `for key, value in data.items()` from entry i on, over items
FlattenEntries(kv, parent_key, items) ==
  IF kv = << >> THEN items
  ELSE LET key == Head(kv)[1]
           value == Head(kv)[2]
           new_key == IF parent_key # EmptyStr
                      THEN parent_key \o SEP \o key
                      ELSE key
       IN FlattenEntries(Tail(kv), parent_key,
                         Update(items, flatten_json(value, new_key)))

\* the loop `for idx, value in enumerate(data)` from index idx on
FlattenElements(xs, idx, parent_key, items) ==
  IF xs = << >> THEN items
  ELSE LET value == Head(xs)
           new_key == IF parent_key # EmptyStr
                      THEN parent_key \o SEP \o Str(idx)
                      ELSE Str(idx)
       IN FlattenElements(Tail(xs), idx + 1, parent_key,
                          Update(items, flatten_json(value, new_key)))

flatten_json(data, parent_key) ==
  IF data.t = "map" THEN FlattenEntries(data.kv, parent_key, EmptyDict)
  ELSE IF data.t = "list" THEN FlattenElements(data.xs, 0, parent_key, EmptyDict)
  ELSE (parent_key :> data.v)

\* sorted(keys): insertion of each key into a sorted list
RECURSIVE Insert(_, _)
Insert(k, s) ==
  IF s = << >> THEN <<k>>
  ELSE IF StrLess(k, Head(s)) THEN <<k>> \o s
  ELSE <<Head(s)>> \o Insert(k, Tail(s))

RECURSIVE Sorted(_)
Sorted(keys) ==
  IF keys = {} THEN << >>
  ELSE LET k == CHOOSE x \in keys : TRUE
       IN Insert(k, Sorted(keys \ {k}))

infer_columns(sample_record) ==
  LET flat == flatten_json(sample_record, EmptyStr)
  IN Sorted(DOMAIN flat)

\* the number of scalar leaves of a nested record
RECURSIVE LeafCount(_)
RECURSIVE SumLeaves(_)
SumLeaves(nodes) ==
  IF nodes = << >> THEN 0 ELSE LeafCount(Head(nodes)) + SumLeaves(Tail(nodes))

LeafCount(data) ==
  IF data.t = "map" THEN SumLeaves([i \in DOMAIN data.kv |-> data.kv[i][2]])
  ELSE IF data.t = "list" THEN SumLeaves(data.xs)
  ELSE 1


\* ------------------------------------------------------------- the rows
uuid == <<"u", "u", "i", "d">>

\* Project with flat.get(col, ""): a missing key is the empty string, not None
ProjectDefaultEmpty(flat, columns) ==
  [col \in Range(columns) |-> IF col \in DOMAIN flat THEN flat[col] ELSE ""]

\* row = {col: flat.get(col) for col in columns}
Project(flat, columns) ==
  [col \in Range(columns) |-> IF col \in DOMAIN flat THEN flat[col] ELSE None]

\* ------------------------------------------------------------- the sink
\* INSERT INTO ... VALUES (...) for every row of the batch
ExecuteMany(tbl, rows) == tbl \o rows

\* The MERGE statement selects exactly `columns` into S and matches on
\* T.uuid = S.uuid, so it is a valid statement only if uuid is a column.
MergeCompiles(columns) == uuid \in Range(columns)

\* ON T.uuid = S.uuid: an SQL equality, never true of a NULL
Matches(t, row) ==
  /\ uuid \in DOMAIN t
  /\ t[uuid] # None
  /\ row[uuid] # None
  /\ t[uuid] = row[uuid]

\* WHEN MATCHED THEN UPDATE SET T.col=S.col for col != "uuid"
\* WHEN NOT MATCHED THEN INSERT (columns) VALUES (S.columns)
Merge(tbl, row, columns) ==
  IF \E i \in DOMAIN tbl : Matches(tbl[i], row)
  THEN [i \in DOMAIN tbl |->
          IF Matches(tbl[i], row)
          THEN [c \in DOMAIN tbl[i] |->
                  IF c \in Range(columns) /\ c # uuid THEN row[c] ELSE tbl[i][c]]
          ELSE tbl[i]]
  ELSE Append(tbl, row)

\* ----------------------------------------------------------- the source
S(v) == Scalar(v)

\* {"uuid": "u1", "a": "1"}
RecA1 == Mapping(<< <<uuid, S("u1")>>, <<<<"a">>, S("1")>> >>)
\* {"uuid": "u1", "a": "2"}: the key of RecA1, another value
RecA2 == Mapping(<< <<uuid, S("u1")>>, <<<<"a">>, S("2")>> >>)
\* {"uuid": None, "a": "1"}
RecNull == Mapping(<< <<uuid, S(None)>>, <<<<"a">>, S("1")>> >>)
\* {"b": {"c": "1"}}: no uuid, no a, a nested leaf b_c
RecNoKey == Mapping(<< <<<<"b">>, Mapping(<< <<<<"c">>, S("1")>> >>)>> >>)

Records == {RecA1, RecA2, RecNull, RecNoKey}

RECURSIVE SeqsUpTo(_, _)
SeqsUpTo(set, n) ==
  IF n = 0 THEN {<< >>}
  ELSE LET shorter == SeqsUpTo(set, n - 1)
       IN shorter \cup {Append(s, x) : s \in {q \in shorter : Len(q) = n - 1}, x \in set}

Sources == SeqsUpTo(Records, MaxSource)

\* A row that an earlier load left in the relation, over the relation's columns
OldRow(cols, key) == [c \in Range(cols) |-> IF c = uuid THEN key ELSE "9"]

\* The relation's columns are those the loads of this source write
TableColumns(src) == IF src = << >> THEN <<<<"a">>, uuid>> ELSE infer_columns(src[1])

InitialTables(src) ==
  LET cols == TableColumns(src)
  IN {<< >>, <<OldRow(cols, "u1")>>, <<OldRow(cols, "u9")>>}


\* ------------------------------------------------------------ the state
VARIABLES
  source,      \* the DynamoDB table: the records a scan yields, in scan order
  BATCH_SIZE,  \* int(os.getenv("BATCH_SIZE", "500"))
  table,       \* the rows of the Snowflake relation as the statements left them
  committed,   \* the rows of the relation at the last conn.commit()
  mode,        \* the handler running: "truncate", "upsert" or "none"
  pc,          \* the place of the run in the handler
  conn,        \* the connection: "none", "open" or "closed"
  first_rec,   \* load_*: first_rec
  columns,     \* load_*: columns
  items,       \* load_truncate: [first_rec] + list(scan_dynamodb())
  pos,         \* the index of the next element of the for loop
  flat,        \* load_*: flat, of the record of the last iteration
  row,         \* load_*: row, of the last iteration
  batch,       \* load_truncate: batch
  result,      \* what the handler returned
  raised,      \* an exception is propagating out of the handler
  calls,       \* the calls of this run on the cursor and the connection
  appended,    \* the rows this run appended to batch, in order
  tableBefore, \* table when the handler was invoked
  runs,        \* the finished runs, in order
  arg,         \* the argument of a call of flatten_json on its own
  ret          \* what that call returned

vars == <<source, BATCH_SIZE, table, committed, mode, pc, conn, first_rec,
          columns, items, pos, flat, row, batch, result, raised, calls, appended, tableBefore,
          runs, arg, ret>>

\* what one run owns
locals == <<first_rec, columns, items, pos, flat, row, batch>>
\* what flatten_json alone uses
pure == <<arg, ret>>
\* what no step of a run changes
config == <<source, BATCH_SIZE>>

NoResult == [statusCode |-> 0, body |-> ""]
FullLoadSucceeded == [statusCode |-> 200, body |-> "Full load succeeded"]
UpsertSucceeded == [statusCode |-> 200, body |-> "Upsert succeeded"]

\* a call on the sink, named by the line of the source that makes it
Call(line, op, rows, ok) == [line |-> line, op |-> op, rows |-> rows, ok |-> ok]

Init ==
  /\ source \in Sources
  /\ BATCH_SIZE \in 1..MaxBatchSize
  /\ table \in InitialTables(source)
  /\ committed = table
  /\ mode = "none"
  /\ pc = "idle"
  /\ conn = "none"
  /\ first_rec = Scalar(None)
  /\ columns = << >>
  /\ items = << >>
  /\ pos = 1
  /\ flat = EmptyDict
  /\ row = EmptyDict
  /\ batch = << >>
  /\ result = NoResult
  /\ raised = FALSE
  /\ calls = << >>
  /\ appended = << >>
  /\ tableBefore = table
  /\ runs = << >>
  /\ arg = Mapping(<< >>)
  /\ ret = EmptyDict

\* ------------------------------------------------------- the handlers
\* the Lambda runtime invokes truncate_load_handler or incremental_upsert_handler
Invoke(m) ==
  /\ pc \in {"idle", "done"}
  /\ Len(runs) < MaxRuns
  /\ mode' = m
  /\ pc' = "connect"
  /\ conn' = "none"
  /\ first_rec' = Scalar(None)
  /\ columns' = << >>
  /\ items' = << >>
  /\ pos' = 1
  /\ flat' = EmptyDict
  /\ row' = EmptyDict
  /\ batch' = << >>
  /\ result' = NoResult
  /\ raised' = FALSE
  /\ calls' = << >>
  /\ appended' = << >>
  /\ tableBefore' = table
  /\ UNCHANGED <<config, table, committed, runs, pure>>

\* the run is over: the handler returned or raised
Finish(closed, exc) ==
  /\ pc' = "done"
  /\ conn' = IF closed THEN "closed" ELSE conn
  /\ raised' = exc
  /\ result' = IF exc THEN NoResult ELSE result
  /\ runs' = Append(runs, [mode |-> mode, ok |-> ~exc, before |-> tableBefore,
                           after |-> table])

\* Connect in a handler whose load does not call ensure_table
ConnectNoEnsure ==
  /\ pc = "connect"
  /\ \E ok \in BOOLEAN :
       IF ok
       THEN /\ conn' = "open"
            /\ pc' = "first_scan"
            /\ UNCHANGED <<raised, result, runs>>
       ELSE Finish(FALSE, TRUE)
  /\ UNCHANGED <<config, table, committed, mode, locals, calls, appended,
                 tableBefore, pure>>

\* conn = get_snowflake_connection(), before the try
Connect ==
  /\ pc = "connect"
  /\ \E ok \in BOOLEAN :
       IF ok
       THEN /\ conn' = "open"
            /\ pc' = "ensure_table"
            /\ UNCHANGED <<raised, result, runs>>
       ELSE Finish(FALSE, TRUE)
  /\ UNCHANGED <<config, table, committed, mode, locals, calls, appended,
                 tableBefore, pure>>

\* an exception leaves load_truncate / load_upsert for the handler's finally
Raise ==
  /\ raised' = TRUE
  /\ pc' = "finally"

\* cur = conn.cursor(); ensure_table(cur)
EnsureTable ==
  /\ pc = "ensure_table"
  /\ \E ok \in BOOLEAN :
       /\ calls' = Append(calls, Call(70, "execute", << >>, ok))
       /\ IF ok THEN pc' = "first_scan" /\ UNCHANGED raised ELSE Raise
  /\ UNCHANGED <<config, table, committed, mode, conn, locals, result, appended,
                 tableBefore, runs, pure>>

\* FirstScan without `if first_rec is None: ... return`: the load goes on
FirstScanNoReturn ==
  /\ pc = "first_scan"
  /\ \E ok \in BOOLEAN :
       IF ~ok
       THEN Raise /\ UNCHANGED <<first_rec, columns, result>>
       ELSE /\ first_rec' = IF source = << >> THEN Scalar(None) ELSE source[1]
            /\ columns' = infer_columns(IF source = << >> THEN Scalar(None)
                                        ELSE source[1])
            /\ pc' = IF mode = "truncate" THEN "rescan" ELSE "merge_loop"
            /\ UNCHANGED <<raised, result>>
  /\ UNCHANGED <<config, table, committed, mode, conn, items, pos, flat, row,
                 batch, calls, appended, tableBefore, runs, pure>>

\* first_rec = next(scan_dynamodb(), None); the early return; infer_columns
FirstScan ==
  /\ pc = "first_scan"
  /\ \E ok \in BOOLEAN :
       IF ~ok
       THEN Raise /\ UNCHANGED <<first_rec, columns, result>>
       ELSE IF source = << >>
       THEN \* logger.warning; return; then the handler's return statement
            /\ result' = IF mode = "truncate" THEN FullLoadSucceeded
                         ELSE UpsertSucceeded
            /\ pc' = "finally"
            /\ UNCHANGED <<first_rec, columns, raised>>
       ELSE /\ first_rec' = source[1]
            /\ columns' = infer_columns(source[1])
            /\ pc' = IF mode = "truncate" THEN "rescan" ELSE "merge_loop"
            /\ UNCHANGED <<raised, result>>
  /\ UNCHANGED <<config, table, committed, mode, conn, items, pos, flat, row,
                 batch, calls, appended, tableBefore, runs, pure>>


\* ------------------------------------------------------- load_truncate
\* [first_rec] + list(scan_dynamodb()): the second scan, read to its end
Rescan ==
  /\ pc = "rescan"
  /\ \E ok \in BOOLEAN :
       IF ok
       THEN /\ items' = <<first_rec>> \o source
            /\ pos' = 1
            /\ pc' = "loop"
            /\ UNCHANGED raised
       ELSE Raise /\ UNCHANGED <<items, pos>>
  /\ UNCHANGED <<config, table, committed, mode, conn, first_rec, columns, flat,
                 row, batch, result, calls, appended, tableBefore, runs, pure>>

\* ReachedThreshold with > for >=
ReachedThresholdStrict(b) == Len(b) > BATCH_SIZE

\* if len(batch) >= BATCH_SIZE
ReachedThreshold(b) == Len(b) >= BATCH_SIZE

\* AppendRow with the columns widened by the keys of every record
AppendRowWidening ==
  /\ pc = "loop"
  /\ pos <= Len(items)
  /\ LET f == flatten_json(items[pos], EmptyStr)
         cols == Sorted(Range(columns) \cup DOMAIN f)
         r == Project(f, cols)
     IN /\ flat' = f
        /\ columns' = cols
        /\ row' = r
        /\ batch' = Append(batch, r)
        /\ appended' = Append(appended, r)
        /\ pos' = pos + 1
        /\ pc' = IF ReachedThreshold(Append(batch, r)) THEN "flush" ELSE "loop"
  /\ UNCHANGED <<config, table, committed, mode, conn, first_rec, items,
                 result, raised, calls, tableBefore, runs, pure>>

\* one iteration of the for loop up to the threshold test
AppendRow ==
  /\ pc = "loop"
  /\ pos <= Len(items)
  /\ LET f == flatten_json(items[pos], EmptyStr)
         r == Project(f, columns)
     IN /\ flat' = f
        /\ row' = r
        /\ batch' = Append(batch, r)
        /\ appended' = Append(appended, r)
        /\ pos' = pos + 1
        /\ pc' = IF ReachedThreshold(Append(batch, r)) THEN "flush" ELSE "loop"
  /\ UNCHANGED <<config, table, committed, mode, conn, first_rec, columns, items,
                 result, raised, calls, tableBefore, runs, pure>>

\* Flush with the failure of executemany swallowed: the loop goes on
FlushSwallow ==
  /\ pc = "flush"
  /\ \E ok \in BOOLEAN :
       /\ calls' = Append(calls, Call(111, "executemany", batch, ok))
       /\ table' = IF ok THEN ExecuteMany(table, batch) ELSE table
       /\ pc' = "flush_commit"
       /\ UNCHANGED raised
  /\ UNCHANGED <<config, committed, mode, conn, locals, result, appended,
                 tableBefore, runs, pure>>

\* cur.executemany(insert_sql, batch) inside the loop
Flush ==
  /\ pc = "flush"
  /\ \E ok \in BOOLEAN :
       /\ calls' = Append(calls, Call(111, "executemany", batch, ok))
       /\ IF ok
          THEN /\ table' = ExecuteMany(table, batch)
               /\ pc' = "flush_commit"
               /\ UNCHANGED raised
          ELSE Raise /\ UNCHANGED table
  /\ UNCHANGED <<config, committed, mode, conn, locals, result, appended,
                 tableBefore, runs, pure>>

\* FlushCommit without conn.commit(): only batch.clear() inside the loop
FlushNoCommit ==
  /\ pc = "flush_commit"
  /\ batch' = << >>
  /\ pc' = "loop"
  /\ UNCHANGED <<config, table, committed, mode, conn, first_rec, columns, items,
                 pos, flat, row, result, raised, calls, appended, tableBefore,
                 runs, pure>>

\* conn.commit(); batch.clear() inside the loop
FlushCommit ==
  /\ pc = "flush_commit"
  /\ \E ok \in BOOLEAN :
       /\ calls' = Append(calls, Call(112, "commit", << >>, ok))
       /\ IF ok
          THEN /\ committed' = table
               /\ batch' = << >>
               /\ pc' = "loop"
               /\ UNCHANGED raised
          ELSE Raise /\ UNCHANGED <<committed, batch>>
  /\ UNCHANGED <<config, table, mode, conn, first_rec, columns, items, pos, flat,
                 row, result, appended, tableBefore, runs, pure>>

\* the loop is over: if batch
Drained ==
  /\ pc = "loop"
  /\ pos > Len(items)
  /\ pc' = IF batch # << >> THEN "final_flush" ELSE "close_cursor"
  /\ UNCHANGED <<config, table, committed, mode, conn, locals, result, raised,
                 calls, appended, tableBefore, runs, pure>>

\* cur.executemany(insert_sql, batch) after the loop
FinalFlush ==
  /\ pc = "final_flush"
  /\ \E ok \in BOOLEAN :
       /\ calls' = Append(calls, Call(116, "executemany", batch, ok))
       /\ IF ok
          THEN /\ table' = ExecuteMany(table, batch)
               /\ pc' = "final_commit"
               /\ UNCHANGED raised
          ELSE Raise /\ UNCHANGED table
  /\ UNCHANGED <<config, committed, mode, conn, locals, result, appended,
                 tableBefore, runs, pure>>

\* conn.commit() after the loop
FinalCommit ==
  /\ pc = "final_commit"
  /\ \E ok \in BOOLEAN :
       /\ calls' = Append(calls, Call(117, "commit", << >>, ok))
       /\ IF ok
          THEN /\ committed' = table
               /\ pc' = "close_cursor"
               /\ UNCHANGED raised
          ELSE Raise /\ UNCHANGED committed
  /\ UNCHANGED <<config, table, mode, conn, locals, result, appended,
                 tableBefore, runs, pure>>

\* cur.close(); load_truncate returns; return {"statusCode": 200, ...}
TruncateReturn ==
  /\ pc = "close_cursor"
  /\ mode = "truncate"
  /\ result' = FullLoadSucceeded
  /\ pc' = "finally"
  /\ UNCHANGED <<config, table, committed, mode, conn, locals, raised, calls,
                 appended, tableBefore, runs, pure>>

\* --------------------------------------------------------- load_upsert
\* MergeRow with conn.commit() after every cur.execute, as load_truncate
\* commits after every batch
MergeRowCommitEach ==
  /\ pc = "merge_loop"
  /\ pos <= Len(source)
  /\ \E scanned \in BOOLEAN, ok \in BOOLEAN :
       IF ~scanned
       THEN Raise /\ UNCHANGED <<pos, flat, row, table, committed, calls>>
       ELSE LET f == flatten_json(source[pos], EmptyStr)
                r == Project(f, columns)
                done == ok /\ MergeCompiles(columns)
            IN /\ flat' = f
               /\ row' = r
               /\ pos' = pos + 1
               /\ IF done
                  THEN /\ calls' = calls \o <<Call(147, "merge", <<r>>, TRUE),
                                              Call(149, "commit", << >>, TRUE)>>
                       /\ table' = Merge(table, r, columns)
                       /\ committed' = Merge(table, r, columns)
                       /\ UNCHANGED <<pc, raised>>
                  ELSE /\ calls' = Append(calls, Call(147, "merge", <<r>>, FALSE))
                       /\ Raise
                       /\ UNCHANGED <<table, committed>>
  /\ UNCHANGED <<config, mode, conn, first_rec, columns, items, batch,
                 result, appended, tableBefore, runs, pure>>

\* MergeRow with `if row["uuid"] is None: continue`: no merge of a null key
MergeRowSkipNull ==
  /\ pc = "merge_loop"
  /\ pos <= Len(source)
  /\ \E scanned \in BOOLEAN, ok \in BOOLEAN :
       IF ~scanned
       THEN Raise /\ UNCHANGED <<pos, flat, row, table, calls>>
       ELSE LET f == flatten_json(source[pos], EmptyStr)
                r == Project(f, columns)
                done == ok /\ MergeCompiles(columns)
            IN /\ flat' = f
               /\ row' = r
               /\ pos' = pos + 1
               /\ IF uuid \in DOMAIN r /\ r[uuid] = None
                  THEN UNCHANGED <<pc, raised, table, calls>>
                  ELSE /\ calls' = Append(calls, Call(147, "merge", <<r>>, done))
                       /\ IF done
                          THEN /\ table' = Merge(table, r, columns)
                               /\ UNCHANGED <<pc, raised>>
                          ELSE Raise /\ UNCHANGED table
  /\ UNCHANGED <<config, committed, mode, conn, first_rec, columns, items, batch,
                 result, appended, tableBefore, runs, pure>>

\* one iteration of `for rec in scan_dynamodb()`: the scan yields the next
\* record (or fails), then cur.execute(merge_sql, row)
MergeRow ==
  /\ pc = "merge_loop"
  /\ pos <= Len(source)
  /\ \E scanned \in BOOLEAN, ok \in BOOLEAN :
       IF ~scanned
       THEN Raise /\ UNCHANGED <<pos, flat, row, table, calls>>
       ELSE LET f == flatten_json(source[pos], EmptyStr)
                r == Project(f, columns)
                done == ok /\ MergeCompiles(columns)
            IN /\ flat' = f
               /\ row' = r
               /\ pos' = pos + 1
               /\ calls' = Append(calls, Call(147, "merge", <<r>>, done))
               /\ IF done
                  THEN /\ table' = Merge(table, r, columns)
                       /\ UNCHANGED <<pc, raised>>
                  ELSE Raise /\ UNCHANGED table
  /\ UNCHANGED <<config, committed, mode, conn, first_rec, columns, items, batch,
                 result, appended, tableBefore, runs, pure>>

\* the scan is exhausted (or fails at its end): conn.commit(); cur.close();
\* load_upsert returns; return {"statusCode": 200, ...}
UpsertCommit ==
  /\ pc = "merge_loop"
  /\ pos > Len(source)
  /\ \E scanned \in BOOLEAN, ok \in BOOLEAN :
       IF ~scanned
       THEN Raise /\ UNCHANGED <<committed, result, calls>>
       ELSE /\ calls' = Append(calls, Call(149, "commit", << >>, ok))
            /\ IF ok
               THEN /\ committed' = table
                    /\ result' = UpsertSucceeded
                    /\ pc' = "finally"
                    /\ UNCHANGED raised
               ELSE Raise /\ UNCHANGED <<committed, result>>
  /\ UNCHANGED <<config, table, mode, conn, locals, appended, tableBefore, runs,
                 pure>>

\* ----------------------------------------------------------- finally
\* Finally without try/finally: conn.close() only when the load returned
FinallyOnSuccess ==
  /\ pc = "finally"
  /\ IF raised
     THEN Finish(FALSE, TRUE) /\ UNCHANGED calls
     ELSE \E ok \in BOOLEAN :
            /\ calls' = Append(calls, Call(IF mode = "truncate" THEN 160 ELSE 169,
                                           "close", << >>, ok))
            /\ Finish(TRUE, ~ok)
  /\ UNCHANGED <<config, table, committed, mode, locals, appended, tableBefore,
                 pure>>

\* finally: conn.close(), then the return value or the exception goes out
Finally ==
  /\ pc = "finally"
  /\ \E ok \in BOOLEAN :
       /\ calls' = Append(calls, Call(IF mode = "truncate" THEN 160 ELSE 169,
                                      "close", << >>, ok))
       /\ Finish(TRUE, raised \/ ~ok)
  /\ UNCHANGED <<config, table, committed, mode, locals, appended, tableBefore,
                 pure>>

Next ==
  \/ \E m \in {"truncate", "upsert"} : Invoke(m)
  \/ Connect
  \/ EnsureTable
  \/ FirstScan
  \/ Rescan
  \/ AppendRow
  \/ Flush
  \/ FlushCommit
  \/ Drained
  \/ FinalFlush
  \/ FinalCommit
  \/ TruncateReturn
  \/ MergeRow
  \/ UpsertCommit
  \/ Finally

Spec == Init /\ [][Next]_vars


\* ------------------------------------------------ flatten_json on its own
\* the keys of the mappings: none holds the separator, one is empty
KeyNames == {EmptyStr, <<"a">>, <<"0">>}

Leaves == {Scalar("1")}

Distinct(ks) == \A i, j \in DOMAIN ks : i # j => ks[i] # ks[j]

\* the mappings of at most MaxWidth entries whose values are in children
MapsOver(children) ==
  UNION {{Mapping([i \in 1..Len(ks) |-> <<ks[i], cs[i]>>]) :
            cs \in [1..Len(ks) -> children]} :
         ks \in {q \in SeqsUpTo(KeyNames, MaxWidth) : Distinct(q)}}

\* the lists of at most MaxWidth elements of children
ListsOver(children) == {List(xs) : xs \in SeqsUpTo(children, MaxWidth)}

\* the nodes of depth at most d
RECURSIVE Nodes(_)
Nodes(d) ==
  IF d = 0 THEN Leaves \cup {Mapping(<< >>), List(<< >>)}
  ELSE LET c == Nodes(d - 1) IN c \cup MapsOver(c) \cup ListsOver(c)

\* a record is a mapping; its depth is at most d
NestedRecords(d) == MapsOver(Nodes(d - 1))

InitFlatten ==
  /\ source = << >>
  /\ BATCH_SIZE = 1
  /\ table = << >>
  /\ committed = << >>
  /\ mode = "none"
  /\ pc = "call"
  /\ conn = "none"
  /\ first_rec = Scalar(None)
  /\ columns = << >>
  /\ items = << >>
  /\ pos = 1
  /\ flat = EmptyDict
  /\ row = EmptyDict
  /\ batch = << >>
  /\ result = NoResult
  /\ raised = FALSE
  /\ calls = << >>
  /\ appended = << >>
  /\ tableBefore = << >>
  /\ runs = << >>
  /\ arg \in NestedRecords(MaxDepth)
  /\ ret = EmptyDict

\* flatten_json(arg)
FlattenCall ==
  /\ pc = "call"
  /\ ret' = flatten_json(arg, EmptyStr)
  /\ pc' = "returned"
  /\ UNCHANGED <<config, table, committed, mode, conn, locals, result, raised,
                 calls, appended, tableBefore, runs, arg>>

NextFlatten == FlattenCall

SpecFlatten == InitFlatten /\ [][NextFlatten]_vars


\* ------------------------------------------------------------ the claims
Count(seq, x) == Cardinality({i \in DOMAIN seq : seq[i] = x})

\* the same rows with the same values, each as many times
SameRows(s, t) == \A x \in Range(s) \cup Range(t) : Count(s, x) = Count(t, x)

RECURSIVE Concat(_)
Concat(seqs) == IF seqs = << >> THEN << >> ELSE Head(seqs) \o Concat(Tail(seqs))

IsExecuteMany(c) == c.op = "executemany"
IsThresholdFlush(c) == c.op = "executemany" /\ c.line = 111
IsFinalFlush(c) == c.op = "executemany" /\ c.line = 116
IsClose(c) == c.op = "close"

\* the batches handed to executemany in this run, in order
Batches == [i \in DOMAIN SelectSeq(calls, IsExecuteMany) |->
              SelectSeq(calls, IsExecuteMany)[i].rows]
ThresholdFlushes == SelectSeq(calls, IsThresholdFlush)
FinalFlushes == SelectSeq(calls, IsFinalFlush)

\* the rows of the source's records over the run's columns
ProjectedSource ==
  [i \in DOMAIN source |-> Project(flatten_json(source[i], EmptyStr), columns)]

\* the handler returned its success result after load_truncate over some records
TruncateSucceeded ==
  /\ pc = "done"
  /\ mode = "truncate"
  /\ ~raised
  /\ source # << >>

\* C1: after a successful Full-Refresh run over a non-empty source the relation
\* holds exactly the rows projected from the source in this run and none of
\* the rows it held before.
C1_FullRefreshReplaces == TruncateSucceeded => SameRows(table, ProjectedSource)

\* C2: a successful Full-Refresh run hands the sink one row per source record:
\* the rows of all its batch writes number Len(source).
C2_OneRowPerRecord == TruncateSucceeded => Len(Concat(Batches)) = Len(source)

\* C3: two successful load_upsert runs in succession over the unchanged source
\* leave the relation as the first of them left it.
C3_UpsertIdempotent ==
  \A i \in DOMAIN runs :
    (/\ i > 1
     /\ runs[i - 1].mode = "upsert" /\ runs[i - 1].ok
     /\ runs[i].mode = "upsert" /\ runs[i].ok)
    => SameRows(runs[i].after, runs[i - 1].after)

\* C4: over an empty source the handler's result is not the success result
\* it returns when rows were loaded.
C4_EmptySourceReported ==
  (pc = "done" /\ ~raised /\ source = << >>)
  => result \notin {FullLoadSucceeded, UpsertSucceeded}

\* C5: over an empty source a run issues no executemany, no merge and no
\* commit, and the relation's rows stay what they were.
C5_EmptySourceNoWrites ==
  source = << >>
  => /\ \A i \in DOMAIN calls : calls[i].op \notin {"executemany", "merge", "commit"}
     /\ table = tableBefore
     /\ committed = tableBefore
     /\ \A i \in DOMAIN runs : runs[i].after = runs[i].before

\* both handlers ran to their return over an empty source, rows in the relation
C5_Witness ==
  /\ source = << >>
  /\ table # << >>
  /\ pc = "done"
  /\ Len(runs) = 2
  /\ runs[1].mode = "truncate" /\ runs[1].ok
  /\ runs[2].mode = "upsert" /\ runs[2].ok

\* C6 as stated: a successful Full-Refresh run that appended N rows made
\* exactly N \div T threshold flushes of T rows each and then exactly one
\* final flush of N % T rows, and the flushed rows are the appended rows.
C6_BatchFlushAsStated ==
  TruncateSucceeded =>
    LET N == Len(appended)
        T == BATCH_SIZE
    IN /\ Len(ThresholdFlushes) = N \div T
       /\ \A i \in DOMAIN ThresholdFlushes : Len(ThresholdFlushes[i].rows) = T
       /\ Len(FinalFlushes) = 1
       /\ \A i \in DOMAIN FinalFlushes : Len(FinalFlushes[i].rows) = N % T
       /\ Concat(Batches) = appended

\* C6 amended: no flush ever carries more than T rows or none; a successful
\* run that appended N rows made exactly N \div T threshold flushes of T
\* rows each, then a final flush of the N % T remaining rows only if N % T > 0
\* (none otherwise), and the flushed rows, in order, are the appended rows.
C6_BatchFlush ==
  LET N == Len(appended)
      T == BATCH_SIZE
  IN /\ \A i \in DOMAIN Batches : Len(Batches[i]) \in 1..T
     /\ TruncateSucceeded =>
          /\ Len(ThresholdFlushes) = N \div T
          /\ \A i \in DOMAIN ThresholdFlushes : Len(ThresholdFlushes[i].rows) = T
          /\ Len(FinalFlushes) = (IF N % T > 0 THEN 1 ELSE 0)
          /\ \A i \in DOMAIN FinalFlushes : Len(FinalFlushes[i].rows) = N % T
          /\ \A i \in DOMAIN calls :
               IsFinalFlush(calls[i]) =>
                 \A j \in DOMAIN calls : IsThresholdFlush(calls[j]) => j < i
          /\ Concat(Batches) = appended

\* a successful run with a threshold flush and a final flush of a remainder
C6_Witness ==
  /\ TruncateSucceeded
  /\ BATCH_SIZE > 1
  /\ ThresholdFlushes # << >>
  /\ FinalFlushes # << >>

\* C7: a run that acquired the connection ends with exactly one close of it,
\* however it ends, and the close is the last call made on the sink.
C7_ConnectionReleased ==
  /\ \A i \in DOMAIN calls : IsClose(calls[i]) => i = Len(calls)
  /\ conn = "closed" <=> (calls # << >> /\ IsClose(calls[Len(calls)]))
  /\ pc = "done" =>
       \/ conn = "none" /\ calls = << >>
       \/ conn = "closed" /\ Len(SelectSeq(calls, IsClose)) = 1
  /\ conn = "open" => pc \notin {"idle", "done"}

\* a run ended by a failed batch write, its connection closed
C7_Witness ==
  /\ pc = "done"
  /\ raised
  /\ conn = "closed"
  /\ \E i \in DOMAIN calls : IsExecuteMany(calls[i]) /\ ~calls[i].ok

\* C8: after the first failing executemany or merge call the run issues no
\* write, merge or commit call, and the handler does not return its result.
C8_FailedWriteEndsRun ==
  \A i \in DOMAIN calls :
    (calls[i].op \in {"executemany", "merge"} /\ ~calls[i].ok)
    => /\ \A j \in DOMAIN calls : j > i => IsClose(calls[j])
       /\ result = NoResult
       /\ pc = "done" => raised

\* a batch was written and committed, the next batch write failed, the run ended
C8_Witness ==
  /\ pc = "done"
  /\ \E i, j \in DOMAIN calls :
       /\ i < j
       /\ IsExecuteMany(calls[i]) /\ calls[i].ok
       /\ IsExecuteMany(calls[j]) /\ ~calls[j].ok

\* the keys of the mappings of a record hold no separator
RECURSIVE NoSepInKeys(_)
NoSepInKeys(data) ==
  IF data.t = "map"
  THEN \A i \in DOMAIN data.kv :
         /\ "_" \notin Range(data.kv[i][1])
         /\ NoSepInKeys(data.kv[i][2])
  ELSE IF data.t = "list" THEN \A i \in DOMAIN data.xs : NoSepInKeys(data.xs[i])
  ELSE TRUE

\* C9: for a record none of whose keys holds the separator, flatten_json
\* returns as many entries as the record has scalar leaves.
C9_LeafCountConserved ==
  (pc = "returned" /\ NoSepInKeys(arg))
  => Cardinality(DOMAIN ret) = LeafCount(arg)

\* a row has been built in this run
RowBuilt == pc \notin {"idle", "call", "returned"} /\ pos > 1

\* C10: the row built for a flat record has exactly the columns as keys, the
\* flat record's value where it has that key and None where it has not, in
\* both load modes; so has every row handed to the sink.
C10_ProjectionTotal ==
  /\ RowBuilt =>
       /\ DOMAIN row = Range(columns)
       /\ \A c \in Range(columns) :
            row[c] = IF c \in DOMAIN flat THEN flat[c] ELSE None
       /\ flat = flatten_json((IF mode = "truncate" THEN items ELSE source)[pos - 1],
                              EmptyStr)
  /\ \A i \in DOMAIN calls : \A j \in DOMAIN calls[i].rows :
       DOMAIN calls[i].rows[j] = Range(columns)

\* load_upsert built a row for a record that lacks a column and has a key
\* that is no column, after load_truncate loaded the same source
C10_Witness ==
  /\ RowBuilt
  /\ mode = "upsert"
  /\ \E c \in Range(columns) : c \notin DOMAIN flat
  /\ \E k \in DOMAIN flat : k \notin Range(columns)
  /\ Len(runs) = 1 /\ runs[1].mode = "truncate" /\ runs[1].ok

\* the places of a run after infer_columns returned
AfterInference == {"rescan", "loop", "flush", "flush_commit", "final_flush",
                   "final_commit", "close_cursor", "merge_loop"}

\* C11: once inferred, the columns are the keys of the flattened first record
\* of the source, in strictly ascending order (so without duplicates), in
\* every later state of the run, and every row handed to the sink has exactly
\* these columns, whatever leaves the later records have.
C11_ColumnSetFixed ==
  /\ pc \in AfterInference => columns # << >>
  /\ columns # << >> =>
       /\ source # << >>
       /\ Range(columns) = DOMAIN flatten_json(source[1], EmptyStr)
       /\ \A i, j \in DOMAIN columns : i < j => StrLess(columns[i], columns[j])
  /\ \A i \in DOMAIN calls : \A j \in DOMAIN calls[i].rows :
       /\ columns # << >>
       /\ DOMAIN calls[i].rows[j] = Range(columns)
  /\ \A i \in DOMAIN appended : DOMAIN appended[i] = Range(columns)

\* a load wrote the row of a later record whose leaves are not the columns
C11_Witness ==
  /\ TruncateSucceeded
  /\ Len(columns) > 1
  /\ \E i \in DOMAIN source :
       DOMAIN flatten_json(source[i], EmptyStr) # Range(columns)

\* what the handler of mode m returns after a load that wrote n rows:
\* return {"statusCode": 200, "body": "Full load succeeded"} (or "Upsert
\* succeeded"); the load functions return nothing and n is not in it
HandlerResult(m, n) == IF m = "truncate" THEN FullLoadSucceeded ELSE UpsertSucceeded

IsWritten(c) == c.op \in {"executemany", "merge"} /\ c.ok

\* the number of rows this run wrote or merged
RowsWritten ==
  Len(Concat([i \in DOMAIN SelectSeq(calls, IsWritten) |->
                SelectSeq(calls, IsWritten)[i].rows]))

\* the handler returned its success result after a load over some records
RunSucceeded ==
  /\ pc = "done"
  /\ ~raised
  /\ source # << >>

\* C12: the result of a successful run over a non-empty source reports the
\* number of rows the run wrote or merged: it is the handler's result for
\* that number and for no other number of rows.
C12_ResultReportsCount ==
  RunSucceeded =>
    /\ result = HandlerResult(mode, RowsWritten)
    /\ \A n \in 0..(MaxSource + 1) :
         n # RowsWritten => result # HandlerResult(mode, n)

\* this step is a merge call that succeeded
MergeDone ==
  /\ Len(calls') = Len(calls) + 1
  /\ calls'[Len(calls')].op = "merge"
  /\ calls'[Len(calls')].ok

\* the sink row t has the uuid of the row r
SameKey(t, r) == uuid \in DOMAIN t /\ t[uuid] = r[uuid]

\* C13: a merge of a row whose uuid is the uuid of sink rows overwrites every
\* non-key column of these rows with the row's value and keeps their uuid; a
\* merge of a row whose uuid no sink row has inserts the row; all other sink
\* rows stay as they are, so rows with the uuid of no source record are left
\* unchanged by the run.
C13_MergeFrame ==
  [][MergeDone =>
       LET r == calls'[Len(calls')].rows[1]
       IN IF \E i \in DOMAIN table : SameKey(table[i], r)
          THEN /\ Len(table') = Len(table)
               /\ \A i \in DOMAIN table :
                    IF SameKey(table[i], r)
                    THEN /\ table'[i][uuid] = table[i][uuid]
                         /\ \A c \in DOMAIN r \ {uuid} : table'[i][c] = r[c]
                    ELSE table'[i] = table[i]
          ELSE table' = Append(table, r)]_vars

IsMerge(c) == c.op = "merge"

\* the merge calls of this run, in order
Merges == SelectSeq(calls, IsMerge)

\* C14: a load_upsert run issues one merge call per record of its streaming
\* scan, in scan order, each with the record's row, and no executemany; a
\* run that succeeds has issued one for every record of the source.
C14_OneMergePerRecord ==
  mode = "upsert" =>
    /\ \A i \in DOMAIN calls : ~IsExecuteMany(calls[i])
    /\ Len(Merges) = pos - 1
    /\ Len(Merges) <= Len(source)
    /\ \A i \in DOMAIN Merges : Merges[i].rows = <<ProjectedSource[i]>>
    /\ \A i \in DOMAIN Merges : i < Len(Merges) => Merges[i].ok
    /\ RunSucceeded => Len(Merges) = Len(source)

\* load_upsert succeeded over MaxSource records with different rows
C14_Witness ==
  /\ RunSucceeded
  /\ mode = "upsert"
  /\ Len(source) > 1
  /\ Merges[1].rows # Merges[2].rows

\* the phase of the run: 0 Start, 1 TableEnsured, 2 SchemaInferred,
\* 3 Streaming, 4 Drained, 5 Done
Phase ==
  CASE pc \in {"connect", "ensure_table"} -> 0
    [] pc = "first_scan" -> 1
    [] pc = "rescan" \/ (pc = "merge_loop" /\ pos = 1) -> 2
    [] pc \in {"loop", "flush", "flush_commit"} \/ (pc = "merge_loop" /\ pos > 1) -> 3
    [] pc \in {"final_flush", "final_commit", "close_cursor"} -> 4
    [] OTHER -> 5

\* what the order of the phases means for the calls made so far
PhaseOrder ==
  /\ Phase \in 1..4 => (calls # << >> /\ calls[1] = Call(70, "execute", << >>, TRUE))
  /\ Phase \in 2..4 => columns # << >>
  /\ \A i \in DOMAIN calls :
       calls[i].op \in {"executemany", "merge", "commit"} =>
         /\ i > 1
         /\ calls[1] = Call(70, "execute", << >>, TRUE)
         /\ columns # << >>
  /\ \A i \in DOMAIN calls :
       IsFinalFlush(calls[i]) => (items # << >> /\ pos = Len(items) + 1)

\* C15: within a run the phase never goes backwards; ensure_table has been
\* executed before the first scan starts, the columns are inferred before any
\* write, merge or commit call, and the final flush is made only after the
\* loop has consumed every record of the streaming scan.
C15_PhaseOrdering ==
  /\ []PhaseOrder
  /\ [][pc' # "connect" => Phase' >= Phase]_vars

\* a run in its Drained phase, after threshold flushes, committing the final flush
C15_Witness ==
  /\ pc = "final_commit"
  /\ ThresholdFlushes # << >>
  /\ Phase = 4

\* C16: in every state of a load_truncate run the records the load holds
\* number at most BATCH_SIZE plus the sample record, and the batch holds at
\* most BATCH_SIZE rows, whatever the size of the source.
C16_BoundedBuffering ==
  mode = "truncate" =>
    /\ Len(items) <= BATCH_SIZE + 1
    /\ Len(batch) <= BATCH_SIZE

\* the rows of the executemany calls among the first n calls of this run
BatchesBefore(n) ==
  Concat([i \in DOMAIN SelectSeq(SubSeq(calls, 1, n), IsExecuteMany) |->
            SelectSeq(SubSeq(calls, 1, n), IsExecuteMany)[i].rows])

\* C17: in load_truncate a commit call follows every successful batch write
\* at once, and the loop goes on only with everything written committed; so
\* when a batch write fails, every earlier batch was written and committed
\* (the relation, committed, is what it was before the run plus these
\* batches) and the run makes no commit after the failed write.
C17_CommitPerBatch ==
  mode = "truncate" =>
    /\ \A i \in DOMAIN calls :
         (IsExecuteMany(calls[i]) /\ calls[i].ok) =>
           IF i < Len(calls)
           THEN calls[i + 1].op = "commit"
           ELSE pc \in {"flush_commit", "final_commit"}
    /\ (pc = "loop" /\ Batches # << >>) => committed = table
    /\ \A k \in DOMAIN calls :
         (IsExecuteMany(calls[k]) /\ ~calls[k].ok) =>
           /\ \A i \in 1..(k - 1) :
                calls[i].op \in {"executemany", "commit"} => calls[i].ok
           /\ \A j \in DOMAIN calls : j > k => calls[j].op # "commit"
           /\ table = tableBefore \o BatchesBefore(k - 1)
           /\ BatchesBefore(k - 1) # << >> => committed = table

\* the final batch write failed after a threshold batch was written and committed
C17_Witness ==
  /\ pc = "done"
  /\ mode = "truncate"
  /\ ThresholdFlushes # << >>
  /\ \E k \in DOMAIN calls : IsFinalFlush(calls[k]) /\ ~calls[k].ok
  /\ committed = tableBefore \o ThresholdFlushes[1].rows

IsCommit(c) == c.op = "commit"

\* the commit calls of this run
Commits == SelectSeq(calls, IsCommit)

====
